---- MODULE Spec2Model ----
(***************************************************************************)
(* Model of pkg/kf/environment_client.go: EnvironmentClient.List, Set and  *)
(* Unset run by concurrent callers against one platform Service resource.  *)
(* Every call is cut at its upstream calls (Serving Factory, App Lister,   *)
(* Services.Update), which is where calls of different callers interleave. *)
(* One application in one namespace is modelled: the options only select   *)
(* the namespace handed to the lister and to Services, and matches is the  *)
(* number of resources the lister finds for that namespace and name.       *)
(***************************************************************************)
EXTENDS Integers, Sequences, FiniteSets, TLC

\* ------------------------------------------------------------------------
\* Bounds of the model
\* ------------------------------------------------------------------------
MaxEnv == 3
MaxNames == 1
MaxMatches == 2

Names == {"A", "B"}
Values == {"0", "1"}
Procs == {1, 2}
AppNames == {"", "app"}

\* corev1.EnvVar, as far as the client touches it
EnvVar == [Name : Names, Value : Values]

RECURSIVE SeqsUpTo(_, _)
SeqsUpTo(S, n) ==
  IF n = 0 THEN {<<>>}
  ELSE LET shorter == SeqsUpTo(S, n - 1)
       IN shorter \cup {Append(q, x) : q \in {r \in shorter : Len(r) = n - 1}, x \in S}

\* a Go map[string]string: a function from a set of names
EmptyMap == [n \in {} |-> "0"]
Put(m, k, v) == [n \in DOMAIN m \cup {k} |-> IF n = k THEN v ELSE m[n]]

\* the inputs callers pass
ValueMaps == UNION {[D -> Values] : D \in SUBSET Names}
NameLists == SeqsUpTo(Names, MaxNames)

\* ------------------------------------------------------------------------
\* State
\* ------------------------------------------------------------------------
VARIABLES
  store,     \* ...Container.Env of the Service resource held by the platform
  matches,   \* number of resources the App Lister's filter matches
  pc,        \* per caller: where its call stands
  op,        \* per caller: the method it is in
  appName,   \* per caller: argument appName
  s,         \* per caller: Env of the local copy s of the fetched Service
  ups,       \* per caller: upstream calls this call has made so far
  pre,       \* per caller: store when the call was made
  hist       \* the calls that have returned, in order of return

vars == <<store, matches, pc, op, appName, s, ups, pre, hist>>

\* ------------------------------------------------------------------------
\* Pure helpers of the client
\* ------------------------------------------------------------------------

\* a List that keeps the first of two pairs with one name
RECURSIVE ListResultsFirstWins(_, _)
ListResultsFirstWins(results, envs) ==
  IF envs = <<>> THEN results
  ELSE ListResultsFirstWins(
         IF Head(envs).Name \in DOMAIN results THEN results
         ELSE Put(results, Head(envs).Name, Head(envs).Value),
         Tail(envs))

\* List, lines 38-41: results[env.Name] = env.Value, front to back
RECURSIVE ListResults(_, _)
ListResults(results, envs) ==
  IF envs = <<>> THEN results
  ELSE ListResults(Put(results, Head(envs).Name, Head(envs).Value), Tail(envs))

\* removeEnvs, lines 107-110: the removal set
RECURSIVE RemovalSet(_)
RemovalSet(ns) ==
  IF ns = <<>> THEN {} ELSE {Head(ns)} \cup RemovalSet(Tail(ns))

\* removeEnvs, lines 112-120
RECURSIVE FilterEnvs(_, _)
FilterEnvs(m, envs) ==
  IF envs = <<>> THEN <<>>
  ELSE IF Head(envs).Name \in m THEN FilterEnvs(m, Tail(envs))
       ELSE <<Head(envs)>> \o FilterEnvs(m, Tail(envs))

\* a removeEnvs that builds its result back to front
RECURSIVE FilterEnvsReversed(_, _)
FilterEnvsReversed(m, envs) ==
  IF envs = <<>> THEN <<>>
  ELSE IF Head(envs).Name \in m THEN FilterEnvsReversed(m, Tail(envs))
       ELSE FilterEnvsReversed(m, Tail(envs)) \o <<Head(envs)>>

removeEnvsReversed(ns, envs) == FilterEnvsReversed(RemovalSet(ns), envs)

\* a removeEnvs that drops only the first pair of each name
RECURSIVE FilterFirstOnly(_, _)
FilterFirstOnly(m, envs) ==
  IF envs = <<>> THEN <<>>
  ELSE IF Head(envs).Name \in m
       THEN FilterFirstOnly(m \ {Head(envs).Name}, Tail(envs))
       ELSE <<Head(envs)>> \o FilterFirstOnly(m, Tail(envs))

removeEnvsFirstOnly(ns, envs) == FilterFirstOnly(RemovalSet(ns), envs)

removeEnvs(ns, envs) == FilterEnvs(RemovalSet(ns), envs)

\* dedupeEnvs, lines 127-129: the existing pairs first
RECURSIVE PutEnvs(_, _)
PutEnvs(newValues, envs) ==
  IF envs = <<>> THEN newValues
  ELSE PutEnvs(Put(newValues, Head(envs).Name, Head(envs).Value), Tail(envs))

\* dedupeEnvs, lines 130-132: then the caller's values
RECURSIVE PutValues(_, _, _)
PutValues(newValues, vals, keys) ==
  IF keys = {} THEN newValues
  ELSE LET n == CHOOSE k \in keys : TRUE
       IN PutValues(Put(newValues, n, vals[n]), vals, keys \ {n})

\* a dedupeEnvs that lets the existing pairs override the caller's values
dedupeEnvsExistingWins(vals, envs) ==
  PutEnvs(PutValues(EmptyMap, vals, DOMAIN vals), envs)

dedupeEnvs(vals, envs) == PutValues(PutEnvs(EmptyMap, envs), vals, DOMAIN vals)

\* the orders in which Go may range over a map: every list that holds each
\* entry once
RECURSIVE RangeOrders(_)
RangeOrders(vals) ==
  IF DOMAIN vals = {} THEN {<<>>}
  ELSE UNION {
         {<<[Name |-> n, Value |-> vals[n]]>> \o rest :
            rest \in RangeOrders([k \in DOMAIN vals \ {n} |-> vals[k]])}
         : n \in DOMAIN vals}

\* a mapToEnvs that leaves the last entry of a map of several out
mapToEnvsDropOne(vals) ==
  {IF Len(l) > 1 THEN SubSeq(l, 1, Len(l) - 1) ELSE l : l \in RangeOrders(vals)}

\* mapToEnvs, lines 137-143: one append per entry, in the order of the range
mapToEnvs(vals) == RangeOrders(vals)

\* a fetchService that only refuses an empty listing
fetchServiceFirst ==
  {[err |-> "lister", env |-> <<>>]}
  \cup (IF matches = 0 THEN {[err |-> "unknown app", env |-> <<>>]}
        ELSE {[err |-> "none", env |-> store]})

\* fetchService, lines 145-159: the outcomes of one fetch
fetchService ==
  {[err |-> "lister", env |-> <<>>]}
  \cup (IF matches # 1 THEN {[err |-> "unknown app", env |-> <<>>]}
        ELSE {[err |-> "none", env |-> store]})

\* ------------------------------------------------------------------------
\* Calls.  Each caller makes one call.  A call is cut at its calls to the
\* platform (the lister's read, the Update), where calls of other callers
\* come in between; the name check and the factory touch nothing shared and
\* go with the entry.  The arguments values and names are read where the code
\* first reads them (dedupeEnvs, removeEnvs); a call that fails before that
\* never reads them, and hist records them empty.
\* ------------------------------------------------------------------------
Active == {p \in Procs : pc[p] \notin {"idle", "returned"}}

\* what a call that returns now, without error and without having changed
\* anything, leaves in hist
Rec(p) ==
  [op |-> op[p], appName |-> appName[p], values |-> EmptyMap, names |-> <<>>,
   err |-> "none", pre |-> pre[p], fetched |-> s[p], post |-> store,
   results |-> EmptyMap, ups |-> ups[p]]

\* the call returns r to its caller and its frame is gone
Return(p, r) ==
  /\ hist' = Append(hist, r)
  /\ pc' = [pc EXCEPT ![p] = "returned"]
  /\ op' = [op EXCEPT ![p] = "none"]
  /\ appName' = [appName EXCEPT ![p] = ""]
  /\ s' = [s EXCEPT ![p] = <<>>]
  /\ ups' = [ups EXCEPT ![p] = <<>>]
  /\ pre' = [pre EXCEPT ![p] = <<>>]

\* what a call of method o on name a that returns at once leaves in hist
Rec0(o, a) ==
  [op |-> o, appName |-> a, values |-> EmptyMap, names |-> <<>>,
   err |-> "none", pre |-> store, fetched |-> <<>>, post |-> store,
   results |-> EmptyMap, ups |-> <<>>]

\* List, lines 28-43: the name check, the fetch and the copy into results
ListCall(p, a) ==
  /\ pc[p] = "idle"
  /\ UNCHANGED <<store, matches>>
  /\ IF a = ""
     THEN Return(p, [Rec0("List", a) EXCEPT !.err = "invalid app name"])
     ELSE \E f \in fetchService :
            Return(p, [Rec0("List", a) EXCEPT
                         !.err = f.err,
                         !.fetched = f.env,
                         !.results = IF f.err = "none"
                                     THEN ListResults(EmptyMap, f.env)
                                     ELSE EmptyMap,
                         !.ups = <<"lister">>])

List(p) == \E a \in AppNames : ListCall(p, a)

\* the factory has given a handle: the call goes on to fetch the Service
Handle(p, o, a) ==
  /\ pc' = [pc EXCEPT ![p] = "fetch"]
  /\ op' = [op EXCEPT ![p] = o]
  /\ appName' = [appName EXCEPT ![p] = a]
  /\ ups' = [ups EXCEPT ![p] = <<"factory">>]
  /\ pre' = [pre EXCEPT ![p] = store]
  /\ UNCHANGED <<s, hist>>

\* a Set or Unset that asks the factory for a handle before it looks at the name
BeginFactoryFirst(p, o, a) ==
  /\ pc[p] = "idle"
  /\ UNCHANGED <<store, matches>>
  /\ \/ Return(p, [Rec0(o, a) EXCEPT !.err = "factory", !.ups = <<"factory">>])
     \/ IF a = ""
        THEN Return(p, [Rec0(o, a) EXCEPT !.err = "invalid app name",
                                         !.ups = <<"factory">>])
        ELSE Handle(p, o, a)

\* Set and Unset, lines 48-56 and 78-86: the name check and the factory
Begin(p, o, a) ==
  /\ pc[p] = "idle"
  /\ UNCHANGED <<store, matches>>
  /\ IF a = ""
     THEN Return(p, [Rec0(o, a) EXCEPT !.err = "invalid app name"])
     ELSE \/ Return(p, [Rec0(o, a) EXCEPT !.err = "factory", !.ups = <<"factory">>])
          \/ Handle(p, o, a)

SetCall(p) == \E a \in AppNames : Begin(p, "Set", a)
UnsetCall(p) == \E a \in AppNames : Begin(p, "Unset", a)

\* Set and Unset, lines 58-61 and 88-91
Fetch(p) ==
  /\ pc[p] = "fetch"
  /\ UNCHANGED <<store, matches>>
  /\ \E f \in fetchService :
       IF f.err # "none"
       THEN Return(p, [Rec(p) EXCEPT !.err = f.err,
                                     !.ups = Append(ups[p], "lister")])
       ELSE /\ pc' = [pc EXCEPT ![p] = "update"]
            /\ s' = [s EXCEPT ![p] = f.env]
            /\ ups' = [ups EXCEPT ![p] = Append(ups[p], "lister")]
            /\ UNCHANGED <<op, appName, pre, hist>>

\* an Update that the platform applies although it reports an error
UpdateAppliedOnError(p, v, ns, env) ==
  /\ UNCHANGED matches
  /\ store' = env
  /\ \/ Return(p, [Rec(p) EXCEPT !.values = v, !.names = ns, !.post = env,
                                 !.ups = Append(ups[p], "update")])
     \/ Return(p, [Rec(p) EXCEPT !.values = v, !.names = ns, !.err = "update",
                                 !.post = env, !.ups = Append(ups[p], "update")])

\* lines 68-71 and 98-101: s.Env is set to env and Services(ns).Update(&s)
\* is called; the platform stores s whole, or rejects it
Update(p, v, ns, env) ==
  /\ UNCHANGED matches
  /\ \/ /\ store' = env
        /\ Return(p, [Rec(p) EXCEPT !.values = v, !.names = ns, !.post = env,
                                    !.ups = Append(ups[p], "update")])
     \/ /\ UNCHANGED store
        /\ Return(p, [Rec(p) EXCEPT !.values = v, !.names = ns, !.err = "update",
                                    !.ups = Append(ups[p], "update")])

\* a Set that merges into the resource as it is now, not as it was fetched
SetOnCurrent(p) ==
  /\ pc[p] = "update"
  /\ op[p] = "Set"
  /\ \E v \in ValueMaps :
       \E env \in mapToEnvs(dedupeEnvs(v, store)) : Update(p, v, <<>>, env)

\* a Set that appends the caller's values to the fetched list
SetAppend(p) ==
  /\ pc[p] = "update"
  /\ op[p] = "Set"
  /\ \E v \in ValueMaps :
       \E env \in mapToEnvs(v) : Update(p, v, <<>>, s[p] \o env)

\* Set, lines 63-73
Set(p) ==
  /\ pc[p] = "update"
  /\ op[p] = "Set"
  /\ \E v \in ValueMaps :
       \E env \in mapToEnvs(dedupeEnvs(v, s[p])) : Update(p, v, <<>>, env)

\* Unset, lines 93-103
Unset(p) ==
  /\ pc[p] = "update"
  /\ op[p] = "Unset"
  /\ \E ns \in NameLists : Update(p, EmptyMap, ns, removeEnvs(ns, s[p]))

\* ------------------------------------------------------------------------
\* Specifications
\* ------------------------------------------------------------------------
Init ==
  /\ store \in SeqsUpTo(EnvVar, MaxEnv)
  /\ matches \in 0..MaxMatches
  /\ pc = [p \in Procs |-> "idle"]
  /\ op = [p \in Procs |-> "none"]
  /\ appName = [p \in Procs |-> ""]
  /\ s = [p \in Procs |-> <<>>]
  /\ ups = [p \in Procs |-> <<>>]
  /\ pre = [p \in Procs |-> <<>>]
  /\ hist = <<>>

\* callers race: calls interleave at their upstream calls
Next ==
  \E p \in Procs :
    \/ List(p)
    \/ SetCall(p)
    \/ UnsetCall(p)
    \/ Fetch(p)
    \/ Set(p)
    \/ Unset(p)

Spec == Init /\ [][Next]_vars

\* one call at a time: a call is made only when no other call is under way
NextSeq ==
  \E p \in Procs :
    \/ Active = {} /\ List(p)
    \/ Active = {} /\ SetCall(p)
    \/ Active = {} /\ UnsetCall(p)
    \/ Fetch(p)
    \/ Set(p)
    \/ Unset(p)

SpecSeq == Init /\ [][NextSeq]_vars

\* ------------------------------------------------------------------------
\* Vocabulary of the properties
\* ------------------------------------------------------------------------
Range(q) == {q[i] : i \in DOMAIN q}
NamesOf(envs) == {envs[i].Name : i \in DOMAIN envs}
PairsOf(envs) == {<<envs[i].Name, envs[i].Value>> : i \in DOMAIN envs}
NoDup(envs) == \A i, j \in DOMAIN envs : envs[i].Name = envs[j].Name => i = j

\* the value of the last pair named n
LastValue(envs, n) ==
  LET last == CHOOSE i \in DOMAIN envs :
                /\ envs[i].Name = n
                /\ \A j \in DOMAIN envs : envs[j].Name = n => j <= i
  IN envs[last].Value

\* the existing pairs as a mapping, overlaid with the caller's values
Overlaid(envs, vals) ==
  {<<n, vals[n]>> : n \in DOMAIN vals}
  \cup {<<n, LastValue(envs, n)>> : n \in NamesOf(envs) \ DOMAIN vals}

Count(q, x) == Cardinality({i \in DOMAIN q : q[i] = x})

Succeeded(r, o) == r.op = o /\ r.err = "none"
Latest(i) == i = Len(hist)

\* ------------------------------------------------------------------------
\* Properties
\* ------------------------------------------------------------------------

\* C1: a successful Set persists the existing pairs, collapsed to a mapping
\* in which the later of two pairs with one name wins, overlaid with values:
\* every key of values has the caller's value, every other existing name
\* keeps its value, and no other name appears.
C1_SetPersistsMerge ==
  \A i \in DOMAIN hist :
    LET r == hist[i] IN
    Succeeded(r, "Set") =>
      /\ PairsOf(r.post) = Overlaid(r.pre, r.values)
      /\ Latest(i) => store = r.post

C1_Witness ==
  /\ Len(hist) = 2
  /\ Succeeded(hist[1], "Set")
  /\ hist[1].pre = <<[Name |-> "B", Value |-> "0"], [Name |-> "A", Value |-> "0"],
                     [Name |-> "B", Value |-> "1"]>>
  /\ hist[1].values = [n \in {"A"} |-> "1"]
  /\ PairsOf(hist[1].post) = {<<"A", "1">>, <<"B", "1">>}
  /\ Succeeded(hist[2], "Set")
  /\ hist[2].values = [n \in {"A", "B"} |-> "0"]
  /\ PairsOf(store) = {<<"A", "0">>, <<"B", "0">>}

\* C2: a successful Unset persists exactly the pairs of the existing list
\* whose names are not in names, with their values and in their order.
C2_UnsetPersistsFilter ==
  \A i \in DOMAIN hist :
    LET r == hist[i]
        Survives(e) == e.Name \notin Range(r.names)
    IN Succeeded(r, "Unset") =>
         /\ r.post = SelectSeq(r.pre, Survives)
         /\ Latest(i) => store = r.post

C2_Witness ==
  /\ Len(hist) = 1
  /\ Succeeded(hist[1], "Unset")
  /\ hist[1].pre = <<[Name |-> "A", Value |-> "1"], [Name |-> "B", Value |-> "0"],
                     [Name |-> "A", Value |-> "0"]>>
  /\ hist[1].names = <<"B">>
  /\ store = <<[Name |-> "A", Value |-> "1"], [Name |-> "A", Value |-> "0"]>>

\* C3: List on a non-empty name with exactly one matching resource, the
\* listing itself succeeding, returns the mapping of the resource's pairs:
\* its names are the names in the list and each has the value of its last
\* pair.
C3_ListReturnsPairs ==
  \A i \in DOMAIN hist :
    LET r == hist[i] IN
    (r.op = "List" /\ r.appName # "" /\ matches = 1 /\ r.err # "lister") =>
      /\ r.err = "none"
      /\ DOMAIN r.results = NamesOf(r.pre)
      /\ \A n \in DOMAIN r.results : r.results[n] = LastValue(r.pre, n)

C3_Witness ==
  /\ Len(hist) = 1
  /\ Succeeded(hist[1], "List")
  /\ store = <<[Name |-> "A", Value |-> "1"], [Name |-> "B", Value |-> "1"],
               [Name |-> "A", Value |-> "0"]>>
  /\ hist[1].results = [n \in {"A", "B"} |-> IF n = "A" THEN "0" ELSE "1"]

\* C4: List, Set and Unset with an empty appName fail with the invalid
\* name error and make no upstream call (no factory, no lister, no update),
\* so the stored resource is unchanged.
C4_EmptyNameNoUpstream ==
  \A i \in DOMAIN hist :
    LET r == hist[i] IN
    r.appName = "" =>
      /\ r.err = "invalid app name"
      /\ r.ups = <<>>
      /\ r.post = r.pre
      /\ Latest(i) => store = r.pre

C4_Witness ==
  /\ Len(hist) = 2
  /\ hist[1].op = "Set" /\ hist[1].appName = ""
  /\ hist[2].op = "Unset" /\ hist[2].appName = ""
  /\ matches = 1
  /\ store # <<>>

\* C5 as stated: with zero or several matches every call on a non-empty
\* name fails with the unknown application error, whatever the factory
\* and the lister do.
C5_UnknownAppWhatever ==
  \A i \in DOMAIN hist :
    (matches # 1 /\ hist[i].appName # "") => hist[i].err = "unknown app"

\* C5 amended: with zero or several matches a call on a non-empty name
\* fails with the unknown application error when it has got its listing,
\* that is when the factory (Set, Unset) gave a handle and the lister
\* returned no error; otherwise it fails with the factory's or the
\* lister's error.  It never updates.
C5_UnknownAppAfterListing ==
  \A i \in DOMAIN hist :
    LET r == hist[i]
        listed == "lister" \in Range(r.ups) /\ r.err # "lister"
    IN (matches # 1 /\ r.appName # "") =>
         /\ listed => r.err = "unknown app"
         /\ ~listed => r.err \in {"factory", "lister"}
         /\ r.op = "List" => r.err # "factory"
         /\ "update" \notin Range(r.ups)

C5_Witness ==
  /\ matches = 2
  /\ Len(hist) = 2
  /\ hist[1].op = "Set" /\ hist[1].err = "unknown app"
  /\ hist[2].op = "List" /\ hist[2].err = "unknown app"

\* C6: no partial success of a Set or Unset: a call that returns an error
\* leaves the persisted environment as it was before the call, and a call
\* that returns no error has issued exactly one Update, which carried the
\* fully computed environment.
C6_NoPartialSuccess ==
  \A i \in DOMAIN hist :
    LET r == hist[i]
        Survives(e) == e.Name \notin Range(r.names)
    IN r.op \in {"Set", "Unset"} =>
         /\ Latest(i) => store = r.post
         /\ r.err # "none" => r.post = r.pre
         /\ r.err = "none" =>
              /\ Count(r.ups, "update") = 1
              /\ r.op = "Set" =>
                   NoDup(r.post) /\ PairsOf(r.post) = Overlaid(r.pre, r.values)
              /\ r.op = "Unset" => r.post = SelectSeq(r.pre, Survives)

C6_Witness ==
  /\ Len(hist) = 2
  /\ hist[1].op = "Set" /\ hist[1].err = "update"
  /\ hist[1].values = [n \in {"A"} |-> "1"]
  /\ hist[1].pre = <<[Name |-> "A", Value |-> "0"]>>
  /\ Succeeded(hist[2], "Unset")
  /\ hist[2].names = <<"A">>
  /\ store = <<>>

\* C7: List right after a successful Set, nothing in between, returns the
\* merged mapping just written: the environment before the Set as a
\* mapping, overlaid with the values given to Set.
C7_SetThenList ==
  \A i \in DOMAIN hist :
    (i > 1 /\ Succeeded(hist[i - 1], "Set") /\ Succeeded(hist[i], "List")) =>
      {<<n, hist[i].results[n]>> : n \in DOMAIN hist[i].results}
        = Overlaid(hist[i - 1].pre, hist[i - 1].values)

C7_Witness ==
  /\ Len(hist) = 2
  /\ Succeeded(hist[1], "Set")
  /\ hist[1].pre = <<[Name |-> "A", Value |-> "0"], [Name |-> "A", Value |-> "1"]>>
  /\ hist[1].values = [n \in {"B"} |-> "0"]
  /\ Succeeded(hist[2], "List")
  /\ hist[2].results = [n \in {"A", "B"} |-> IF n = "A" THEN "1" ELSE "0"]

\* C8: Unset is idempotent: a second successful Unset with the same names
\* right after the first leaves the persisted list, content and order,
\* as the first left it.
C8_UnsetIdempotent ==
  \A i \in DOMAIN hist :
    (/\ i > 1
     /\ Succeeded(hist[i - 1], "Unset")
     /\ Succeeded(hist[i], "Unset")
     /\ hist[i].names = hist[i - 1].names) =>
      /\ hist[i].post = hist[i - 1].post
      /\ Latest(i) => store = hist[i - 1].post

C8_Witness ==
  /\ Len(hist) = 2
  /\ Succeeded(hist[1], "Unset")
  /\ Succeeded(hist[2], "Unset")
  /\ hist[1].names = <<"A">>
  /\ hist[2].names = <<"A">>
  /\ hist[1].pre = <<[Name |-> "A", Value |-> "0"], [Name |-> "B", Value |-> "1"],
                     [Name |-> "A", Value |-> "1"]>>
  /\ store = <<[Name |-> "B", Value |-> "1"]>>

\* C9: the Update of a Set is not conditional on the resource being as it
\* was fetched: a successful Set always persists its own fetched snapshot
\* overlaid with its values, so when two Sets race the one that updates
\* last determines the persisted environment and what the other wrote in
\* between is lost, both returning no error.
C9_LastWriterWins ==
  \A i \in DOMAIN hist :
    LET r == hist[i] IN
    Succeeded(r, "Set") =>
      /\ PairsOf(r.post) = Overlaid(r.fetched, r.values)
      /\ (Latest(i) /\ Active = {}) => store = r.post

\* both calls fetched before either updated; both returned no error; the
\* pair the first wrote is not in the final environment although the second
\* never named it
C9_Witness ==
  /\ Len(hist) = 2
  /\ Succeeded(hist[1], "Set")
  /\ Succeeded(hist[2], "Set")
  /\ hist[1].fetched = <<>>
  /\ hist[2].fetched = <<>>
  /\ hist[1].values = [n \in {"A"} |-> "1"]
  /\ hist[2].values = [n \in {"B"} |-> "1"]
  /\ hist[1].post = <<[Name |-> "A", Value |-> "1"]>>
  /\ store = <<[Name |-> "B", Value |-> "1"]>>

\* C10: the list a successful Set persists names each variable once,
\* whatever duplicates it fetched; the list a successful Unset persists has
\* no duplicate its fetched list had not; and from a duplicate-free
\* environment every persisted environment is duplicate-free, however the
\* calls interleave.
C10_Returned ==
  \A i \in DOMAIN hist :
    LET r == hist[i] IN
    /\ Succeeded(r, "Set") => NoDup(r.post)
    /\ (Succeeded(r, "Unset") /\ NoDup(r.fetched)) => NoDup(r.post)

C10_NamesUnique == []C10_Returned /\ (NoDup(store) => []NoDup(store))

C10_Witness ==
  /\ Len(hist) = 2
  /\ Succeeded(hist[1], "Set")
  /\ ~NoDup(hist[1].fetched)
  /\ Succeeded(hist[2], "Unset")
  /\ hist[2].fetched = hist[1].post
  /\ Len(store) = 1

====
